---- MODULE Spec2Model ----
(***************************************************************************)
(* A model of src/optimization_utils.py: the RegionBracket simulator       *)
(* (one 16-seed region, 4 rounds), its symmetric win-probability lookup,   *)
(* and clip_continuous_inputs_to_discrete_search_space.                    *)
(*                                                                         *)
(* Python dicts are modelled as sequences of [key, ref, val] records in    *)
(* insertion order (the order .items() iterates in): val is the content of *)
(* the list stored under key and ref the identity of that list object, so  *)
(* that a pop is seen through every reference to it.  Probabilities are    *)
(* integers in hundredths (One = 1.0).  Continuous inputs of the clip      *)
(* function are integers in tenths (Tenth = 10 stands for 1.0).           *)
(***************************************************************************)
EXTENDS Integers, Sequences, FiniteSets, TLC

VARIABLES
    \* ---- RegionBracket ----
    seed_path_dictionary,        \* the schedule passed to the constructor
    win_probability_dictionary,  \* the table passed to the constructor
    points_by_seed,              \* self.points_by_seed
    current_matchup_state,       \* self.current_matchup_state
    updated_matchup_state,       \* local of simulate_round_and_update_current_state
    visited,                     \* local of simulate_round_and_update_current_state
    idx,                         \* position of the for loop over .items()
    round,                       \* rounds completed by the running call (for _ in range(4))
    seed,                        \* local: loop variable
    current_opponent,            \* local: Unbound until first assigned in a round
    winning_seed,                \* local
    pc,                          \* "ready" | "loop" | "done" | "raised"
    error,                       \* the exception that left the call, if any
    calls,                       \* simulate_region_tournament calls started on this instance
    matchups,                    \* matchups resolved by the running call, per round
    rng,                         \* state of the module-global generator np.random
    np_random_seed,              \* the caller's np.random.seed(...) argument, if any
    \* ---- extract_win_probability_by_seed called on its own ----
    lookup_args,
    lookup_result,
    \* ---- clip_continuous_inputs_to_discrete_search_space ----
    SINGLE_REGION_SEARCH_SPACE,  \* module-level default candidate list
    continuous_input_arr,
    discrete_search_space,       \* the caller's argument (NoneArg when None)
    replace,
    search_space_arr,            \* working copy
    output_values,
    clip_pos,                    \* position of the for loop over the input
    clip_pc,                     \* "idle" | "loop" | "returned" | "raised"
    clip_error,
    clip_calls,                  \* calls made with these arguments
    previous_result              \* how the call before the running one ended

bracketVars == <<seed_path_dictionary, win_probability_dictionary, points_by_seed,
                 current_matchup_state, updated_matchup_state, visited, idx, round,
                 seed, current_opponent, winning_seed, pc, error, calls, matchups,
                 rng, np_random_seed>>
lookupVars  == <<lookup_args, lookup_result>>
clipVars    == <<SINGLE_REGION_SEARCH_SPACE, continuous_input_arr, discrete_search_space,
                 replace, search_space_arr, output_values, clip_pos, clip_pc, clip_error,
                 clip_calls, previous_result>>
vars        == <<bracketVars, lookupVars, clipVars>>

---------------------------------------------------------------------------
(* Bounds of the model *)

\* simulate_region_tournament calls allowed on one instance
MaxCalls == 2
\* seeds of the tables enumerated for the stand-alone lookup
LookupSeedCount == 2
\* longest continuous input handed to the clip function
MaxInputLen == 3
\* successive clip calls made with the same arguments
MaxClipCalls == 2

---------------------------------------------------------------------------
(* Data *)

Seeds == 1..16
One == 100
None == -1
Unbound == 0

RangeOf(s) == {s[i] : i \in DOMAIN s}
Keys(d) == {d[i].key : i \in DOMAIN d}

Single(o) == [tuple |-> FALSE, members |-> <<o>>]
Tuple(m)  == [tuple |-> TRUE,  members |-> m]

SEED_PATH_DICTIONARY ==
  << [key |-> 1, ref |-> 1, val |-> <<Single(16), Tuple(<<8, 9>>),  Tuple(<<4, 5, 12, 13>>), Tuple(<<2, 3, 6, 7, 10, 11, 14, 15>>)>>],
     [key |-> 2, ref |-> 2, val |-> <<Single(15), Tuple(<<7, 10>>), Tuple(<<3, 6, 11, 14>>), Tuple(<<1, 4, 5, 8, 9, 12, 13, 16>>)>>],
     [key |-> 3, ref |-> 3, val |-> <<Single(14), Tuple(<<6, 11>>), Tuple(<<2, 7, 10, 15>>), Tuple(<<1, 4, 5, 8, 9, 12, 13, 16>>)>>],
     [key |-> 4, ref |-> 4, val |-> <<Single(13), Tuple(<<5, 12>>), Tuple(<<1, 8, 9, 16>>),  Tuple(<<2, 3, 6, 7, 10, 11, 14, 15>>)>>],
     [key |-> 5, ref |-> 5, val |-> <<Single(12), Tuple(<<4, 13>>), Tuple(<<1, 8, 9, 16>>),  Tuple(<<2, 3, 6, 7, 10, 11, 14, 15>>)>>],
     [key |-> 6, ref |-> 6, val |-> <<Single(11), Tuple(<<3, 14>>), Tuple(<<2, 7, 10, 15>>), Tuple(<<1, 4, 5, 8, 9, 12, 13, 16>>)>>],
     [key |-> 7, ref |-> 7, val |-> <<Single(10), Tuple(<<2, 15>>), Tuple(<<3, 6, 11, 14>>), Tuple(<<1, 4, 5, 8, 9, 12, 13, 16>>)>>],
     [key |-> 8, ref |-> 8, val |-> <<Single(9),  Tuple(<<1, 16>>), Tuple(<<4, 5, 12, 13>>), Tuple(<<2, 3, 6, 7, 10, 11, 14, 15>>)>>] >>

\* variant: the dict is taken over as it is (a plain assignment or dict(d)),
\* so the instance holds the schedule's own list objects
ShallowCopy(d) == d

\* deepcopy: the same keys and contents in new list objects (the copy of the
\* list object r is the object -r)
DeepCopy(d) == [i \in DOMAIN d |-> [d[i] EXCEPT !.ref = -@]]

\* variant: the first element is read without being removed
PopFirstPeeking(d, r) == d

\* list.pop(0) on the list object r, as seen in the dict d: the entry that
\* holds r loses its first element
PopFirst(d, r) ==
  [i \in DOMAIN d |->
     IF d[i].ref = r /\ d[i].val # <<>> THEN [d[i] EXCEPT !.val = Tail(@)] ELSE d[i]]

InitialPoints == [n \in Seeds |-> 0]

NoError == [type |-> "none", seeds |-> <<>>]
Raised(t, s) == [type |-> t, seeds |-> s]

---------------------------------------------------------------------------
(* Win-probability tables: a function seed -> (function opponent -> p);   *)
(* a seed outside DOMAIN has no row, a row with empty DOMAIN is {}.        *)

EmptyRow == [b \in {} |-> 0]

\* every pair populated in the direction low seed -> high seed
TableFwd(F) == [a \in 1..15 |-> [b \in (a + 1)..16 |-> F[a, b]]]
\* every pair populated in the direction high seed -> low seed
TableRev(F) == [b \in 2..16 |-> [a \in 1..(b - 1) |-> One - F[a, b]]]
\* a table with the entries of the pairs {a, b}, a in from, b in to, removed
Without(t, from, to) ==
  [a \in DOMAIN t |-> [b \in {x \in DOMAIN t[a] : ~((a \in from /\ x \in to) \/ (a \in to /\ x \in from))} |-> t[a][b]]]

\* the probability that a beats b, for a < b
Even   == [a \in Seeds, b \in Seeds |-> 50]
Chalk  == [a \in Seeds, b \in Seeds |-> One]
Upset  == [a \in Seeds, b \in Seeds |-> 0]
Zigzag == [a \in Seeds, b \in Seeds |-> IF (a + b) % 3 = 0 THEN One ELSE 0]
Blend  == [a \in Seeds, b \in Seeds |->
             IF b - a >= 8 THEN 98 ELSE IF (a + b) % 2 = 0 THEN 0 ELSE One]

DeterministicTables ==
  { TableFwd(Chalk), TableFwd(Upset), TableFwd(Zigzag),
    TableRev(Chalk), TableRev(Upset), TableRev(Zigzag) }

CompleteTables ==
  DeterministicTables \cup { TableFwd(Even), TableRev(Blend) }

IncompleteTables ==
  { (1 :> EmptyRow),
    Without(TableFwd(Blend), {1, 16}, {8, 9}),
    Without(TableRev(Chalk), {2, 15, 7, 10}, {3, 14, 6, 11}),
    Without(TableFwd(Zigzag), {8}, {9}),
    [a \in 1..4 |-> TableFwd(Chalk)[a]] }

Tables == CompleteTables \cup IncompleteTables

---------------------------------------------------------------------------
(* extract_win_probability_by_seed *)

Truthy(table, a) == a \in DOMAIN table /\ DOMAIN table[a] # {}
Get(row, k) == IF k \in DOMAIN row THEN row[k] ELSE None

Found(p) == [ok |-> TRUE, p |-> p, seeds |-> <<>>]
Missing(a, b) == [ok |-> FALSE, p |-> None, seeds |-> <<a, b>>]

\* variant: the probability itself is tested for truth, so 0.0 counts as absent
extract_testing_truth(table, current_seed, matchup_opponent) ==
  LET first == IF Truthy(table, current_seed)
               THEN Get(table[current_seed], matchup_opponent)
               ELSE None
  IN  IF ~Truthy(table, current_seed) \/ first = None \/ first = 0
      THEN IF ~Truthy(table, matchup_opponent)
           THEN Missing(current_seed, matchup_opponent)
           ELSE LET other == Get(table[matchup_opponent], current_seed)
                IN  IF other = None \/ other = 0
                    THEN Missing(current_seed, matchup_opponent)
                    ELSE Found(One - other)
      ELSE Found(first)

\* variant: a pair without an entry is given an even chance
extract_defaulting_half(table, current_seed, matchup_opponent) ==
  LET first == IF Truthy(table, current_seed)
               THEN Get(table[current_seed], matchup_opponent)
               ELSE None
  IN  IF ~Truthy(table, current_seed) \/ first = None
      THEN IF ~Truthy(table, matchup_opponent)
           THEN Found(One \div 2)
           ELSE LET other == Get(table[matchup_opponent], current_seed)
                IN  IF other = None
                    THEN Found(One \div 2)
                    ELSE Found(One - other)
      ELSE Found(first)

extract_win_probability_by_seed(table, current_seed, matchup_opponent) ==
  LET first == IF Truthy(table, current_seed)
               THEN Get(table[current_seed], matchup_opponent)
               ELSE None
  IN  IF ~Truthy(table, current_seed) \/ first = None
      THEN IF ~Truthy(table, matchup_opponent)
           THEN Missing(current_seed, matchup_opponent)
           ELSE LET other == Get(table[matchup_opponent], current_seed)
                IN  IF other = None
                    THEN Missing(current_seed, matchup_opponent)
                    ELSE Found(One - other)
      ELSE Found(first)

---------------------------------------------------------------------------
(* One round of the bracket *)

\* np.random.binomial(n=1, p): the outcomes that have non-zero probability
\* variant: the draw ignores p
BinomialIgnoringP(p) == {0, 1}

Binomial(p) == IF p = 0 THEN {0} ELSE IF p = One THEN {1} ELSE {0, 1}

\* The generator behind np.random.binomial is one object of the numpy module.
\* Left unseeded it starts from entropy and any outcome of non-zero
\* probability can come; after np.random.seed(s) it is a deterministic
\* sequence of states, stood for here by a full-period congruential
\* generator on 0..99 whose state is also the uniform variate, in hundredths.
Unseeded == None
SeedRng(s) == s % 100
NextRng(g) == (21 * g + 7) % 100
Uniform(g) == g

\* the outcomes np.random.binomial(n=1, p) can return in generator state g
DrawOutcomes(g, p) ==
  IF g = Unseeded THEN Binomial(p) ELSE {IF Uniform(g) < p THEN 1 ELSE 0}

\* the generator states the draw can leave behind: a variate is consumed,
\* except that a draw with p = 0.0 or p = 1.0 may return without one
AfterDraw(g, p) ==
  IF g = Unseeded THEN {g}
  ELSE IF p \in {0, One} THEN {g, NextRng(g)}
  ELSE {NextRng(g)}

\* the for/break scan of a tuple descriptor; prev is the value the local
\* current_opponent keeps when no member is a key of the state
\* variant: the first member is taken whether or not it is still alive
FindOpponentFirstMember(members, keys, prev) == Head(members)

RECURSIVE FindOpponent(_, _, _)
FindOpponent(members, keys, prev) ==
  IF members = <<>> THEN prev
  ELSE IF Head(members) \in keys THEN Head(members)
  ELSE FindOpponent(Tail(members), keys, prev)

HasCandidate(members, keys) == RangeOf(members) \cap keys # {}

\* variant: the opponent is never marked visited
VisitedAfterForgetting(vis, descriptor, keys, opp) == vis

VisitedAfter(vis, descriptor, keys, opp) ==
  IF descriptor.tuple /\ HasCandidate(descriptor.members, keys)
  THEN vis \cup {opp}
  ELSE vis

NextOpponent(descriptor, keys, prev) ==
  IF descriptor.tuple
  THEN FindOpponent(descriptor.members, keys, prev)
  ELSE descriptor.members[1]

\* variant: the outcome is read the wrong way round
WinningSeedInverted(s, opp, game_outcome) == IF game_outcome # 0 THEN opp ELSE s

WinningSeed(s, opp, game_outcome) == IF game_outcome # 0 THEN s ELSE opp

\* variant: a win is worth one point
PointsAfterWinByOne(points, w) == [points EXCEPT ![w] = @ + 1]
\* variant: -= in place of +=
PointsAfterWinSubtracting(points, w) == [points EXCEPT ![w] = @ - w]

PointsAfterWin(points, w) == [points EXCEPT ![w] = @ + w]

\* d[k] = v on an insertion-ordered dict, v a list object [ref, val]
DictSet(d, k, v) ==
  IF k \in Keys(d)
  THEN [i \in DOMAIN d |->
          IF d[i].key = k THEN [key |-> k, ref |-> v.ref, val |-> v.val] ELSE d[i]]
  ELSE Append(d, [key |-> k, ref |-> v.ref, val |-> v.val])

\* variant: the winner keeps the list stored under its own key, when it has one
WinnerOwnPath(state, i, w) ==
  LET own == {j \in DOMAIN state : state[j].key = w}
      j == IF own = {} THEN i ELSE CHOOSE x \in own : TRUE
  IN  [ref |-> state[j].ref, val |-> state[j].val]

\* matchup_path as stored for the winner w: the list object of the entry at
\* position i, the primary seed's, whoever won
WinnerPath(state, i, w) == [ref |-> state[i].ref, val |-> state[i].val]

\* where control goes when an exception is raised in the loop body at
\* position i: neither method has a handler, so the loop is left where it
\* stands and the call itself raises
\* variant: the exception is caught in the loop body and the loop goes on
AfterExceptionContinuing(i) == [pc |-> "loop", idx |-> i + 1]

AfterException(i) == [pc |-> "raised", idx |-> i]

NumRounds == 4

NoMatchups == [r \in 1..NumRounds |-> 0]

---------------------------------------------------------------------------
(* RegionBracket: construction and simulate_region_tournament *)

\* the frame of simulate_round_and_update_current_state at its entry
NewRoundFrame ==
  /\ updated_matchup_state' = <<>>
  /\ visited' = {}
  /\ idx' = 1
  /\ seed' = Unbound
  /\ current_opponent' = Unbound
  /\ winning_seed' = Unbound

\* RegionBracket(schedule, table): __post_init__ on a new instance built
\* from the same schedule and table
PostInit ==
  /\ pc \in {"done", "raised"}
  /\ points_by_seed' = InitialPoints
  /\ current_matchup_state' = DeepCopy(seed_path_dictionary)
  /\ NewRoundFrame
  /\ round' = 0
  /\ pc' = "ready"
  /\ error' = NoError
  /\ calls' = 0
  /\ matchups' = NoMatchups
  /\ UNCHANGED <<seed_path_dictionary, win_probability_dictionary, rng, np_random_seed,
                 lookupVars, clipVars>>

\* entry of simulate_region_tournament and of its first round
Call ==
  /\ pc \in {"ready", "done", "raised"}
  /\ calls < MaxCalls
  /\ calls' = calls + 1
  /\ round' = 0
  /\ NewRoundFrame
  /\ pc' = "loop"
  /\ error' = NoError
  /\ matchups' = NoMatchups
  /\ UNCHANGED <<seed_path_dictionary, win_probability_dictionary, points_by_seed,
                 current_matchup_state, rng, np_random_seed, lookupVars, clipVars>>

\* the exception e leaves the loop body at the current position
Raise(e) ==
  /\ pc' = AfterException(idx).pc
  /\ idx' = AfterException(idx).idx
  /\ error' = e

\* one iteration of the for loop over current_matchup_state.items()
SimulateMatchup ==
  /\ pc = "loop"
  /\ idx <= Len(current_matchup_state)
  /\ LET s == current_matchup_state[idx].key
         matchup_path == current_matchup_state[idx].val
         keys == Keys(current_matchup_state)
     IN  /\ seed' = s
         /\ IF s \in visited
            THEN \* continue
                 /\ idx' = idx + 1
                 /\ UNCHANGED <<points_by_seed, current_matchup_state, updated_matchup_state,
                                visited, current_opponent, winning_seed, pc, error, matchups,
                                seed_path_dictionary, rng>>
            ELSE IF matchup_path = <<>>
            THEN \* pop(0) of an empty list
                 /\ Raise(Raised("IndexError", <<>>))
                 /\ UNCHANGED <<points_by_seed, current_matchup_state, updated_matchup_state,
                                visited, current_opponent, winning_seed, matchups,
                                seed_path_dictionary, rng>>
            ELSE LET next_opponent == Head(matchup_path)
                     opp == NextOpponent(next_opponent, keys, current_opponent)
                     lookup == extract_win_probability_by_seed(win_probability_dictionary, s, opp)
                     popped == PopFirst(current_matchup_state, current_matchup_state[idx].ref)
                 IN  /\ current_matchup_state' = popped
                     /\ seed_path_dictionary' =
                          PopFirst(seed_path_dictionary, current_matchup_state[idx].ref)
                     /\ visited' = VisitedAfter(visited, next_opponent, keys, opp)
                     /\ current_opponent' = opp
                     /\ IF opp = Unbound
                        THEN \* current_opponent read before any assignment
                             /\ Raise(Raised("UnboundLocalError", <<>>))
                             /\ UNCHANGED <<points_by_seed, updated_matchup_state,
                                            winning_seed, matchups, rng>>
                        ELSE IF ~lookup.ok
                        THEN /\ Raise(Raised("ValueError", lookup.seeds))
                             /\ UNCHANGED <<points_by_seed, updated_matchup_state,
                                            winning_seed, matchups, rng>>
                        ELSE \E game_outcome \in DrawOutcomes(rng, lookup.p) :
                               LET w == WinningSeed(s, opp, game_outcome)
                               IN  /\ winning_seed' = w
                                   /\ rng' \in AfterDraw(rng, lookup.p)
                                   /\ points_by_seed' = PointsAfterWin(points_by_seed, w)
                                   /\ updated_matchup_state' =
                                        DictSet(updated_matchup_state, w,
                                                WinnerPath(popped, idx, w))
                                   /\ matchups' = [matchups EXCEPT ![round + 1] = @ + 1]
                                   /\ idx' = idx + 1
                                   /\ UNCHANGED <<pc, error>>
  /\ UNCHANGED <<win_probability_dictionary, round, calls, np_random_seed,
                 lookupVars, clipVars>>

\* the loop over .items() is exhausted: the state is overwritten, and the
\* next round is entered or simulate_region_tournament returns
EndRound ==
  /\ pc = "loop"
  /\ idx > Len(current_matchup_state)
  /\ current_matchup_state' = updated_matchup_state
  /\ round' = round + 1
  /\ IF round + 1 < NumRounds
     THEN NewRoundFrame /\ pc' = "loop"
     ELSE /\ pc' = "done"
          /\ UNCHANGED <<updated_matchup_state, visited, idx, seed, current_opponent,
                         winning_seed>>
  /\ UNCHANGED <<seed_path_dictionary, win_probability_dictionary, points_by_seed,
                 error, calls, matchups, rng, np_random_seed, lookupVars, clipVars>>

---------------------------------------------------------------------------
(* Idle values of the parts a specification does not exercise *)

NoResult == [ok |-> FALSE, p |-> None, seeds |-> <<>>]
NoneArg == [none |-> TRUE, list |-> <<>>]
Given(l) == [none |-> FALSE, list |-> l]

LookupIdle ==
  /\ lookup_args = <<>>
  /\ lookup_result = NoResult

\* SINGLE_REGION_SEARCH_SPACE = list(np.arange(1, 17))
DefaultSearchSpace == [i \in 1..16 |-> i]

\* how a clip call ended: the list returned, or the exception
NoClipResult == [pc |-> "idle", output |-> <<>>, error |-> NoError]

ClipIdle ==
  /\ SINGLE_REGION_SEARCH_SPACE = DefaultSearchSpace
  /\ continuous_input_arr = <<>>
  /\ discrete_search_space = NoneArg
  /\ replace = FALSE
  /\ search_space_arr = <<>>
  /\ output_values = <<>>
  /\ clip_pos = 1
  /\ clip_pc = "idle"
  /\ clip_error = NoError
  /\ clip_calls = 0
  /\ previous_result = NoClipResult

BracketConstructed(table) ==
  /\ seed_path_dictionary = SEED_PATH_DICTIONARY
  /\ win_probability_dictionary = table
  /\ points_by_seed = InitialPoints
  /\ current_matchup_state = DeepCopy(SEED_PATH_DICTIONARY)
  /\ updated_matchup_state = <<>>
  /\ visited = {}
  /\ idx = 1
  /\ round = 0
  /\ seed = Unbound
  /\ current_opponent = Unbound
  /\ winning_seed = Unbound
  /\ pc = "ready"
  /\ error = NoError
  /\ calls = 0
  /\ matchups = NoMatchups

\* np.random as the interpreter leaves it: never seeded by the caller
GeneratorUnseeded ==
  /\ rng = Unseeded
  /\ np_random_seed = Unseeded

---------------------------------------------------------------------------
(* The bracket specification *)

Init ==
  /\ \E table \in Tables : BracketConstructed(table)
  /\ GeneratorUnseeded
  /\ LookupIdle
  /\ ClipIdle

Next == PostInit \/ Call \/ SimulateMatchup \/ EndRound

Spec == Init /\ [][Next]_vars

---------------------------------------------------------------------------
(* A seeded run beside other instances of the same process *)

RngSeeds == {0, 42}

\* line 66 executed for a matchup of any other RegionBracket instance: it
\* draws from the same module-global generator
OtherInstanceDraw ==
  /\ rng # Unseeded
  /\ rng' = NextRng(rng)
  /\ UNCHANGED <<seed_path_dictionary, win_probability_dictionary, points_by_seed,
                 current_matchup_state, updated_matchup_state, visited, idx, round,
                 seed, current_opponent, winning_seed, pc, error, calls, matchups,
                 np_random_seed, lookupVars, clipVars>>

\* np.random.seed(s), then RegionBracket(schedule, table)
InitShared ==
  /\ BracketConstructed(TableRev(Blend))
  /\ np_random_seed \in RngSeeds
  /\ rng = SeedRng(np_random_seed)
  /\ LookupIdle
  /\ ClipIdle

NextShared == Call \/ SimulateMatchup \/ EndRound \/ OtherInstanceDraw

SpecShared == InitShared /\ [][NextShared]_vars

---------------------------------------------------------------------------
(* extract_win_probability_by_seed on its own, over small tables *)

\* seed 1 and the highest seeds: the pair (1, 16) and its neighbours
LookupSeeds == {1} \cup (18 - LookupSeedCount)..16
LookupProbs == {0, 30, One}

Rows == {EmptyRow} \cup UNION {[cols -> LookupProbs] : cols \in SUBSET LookupSeeds}
LookupTables == UNION {[rows -> Rows] : rows \in SUBSET LookupSeeds}

Lookup ==
  /\ lookup_args = <<>>
  /\ \E a \in LookupSeeds, b \in LookupSeeds :
       /\ lookup_args' = <<a, b>>
       /\ lookup_result' = extract_win_probability_by_seed(win_probability_dictionary, a, b)
  /\ UNCHANGED <<bracketVars, clipVars>>

InitLookup ==
  /\ \E table \in LookupTables : BracketConstructed(table)
  /\ GeneratorUnseeded
  /\ LookupIdle
  /\ ClipIdle

NextLookup == Lookup

SpecLookup == InitLookup /\ [][NextLookup]_vars

---------------------------------------------------------------------------
(* Properties of the bracket simulation *)

Has(table, a, b) == a \in DOMAIN table /\ b \in DOMAIN table[a]
NoEntry(table, a, b) == ~Has(table, a, b) /\ ~Has(table, b, a)
CoversEveryPair(table) ==
  \A a \in Seeds, b \in Seeds : a # b => ~NoEntry(table, a, b)
OneDirection(table) ==
  \A a \in DOMAIN table : \A b \in DOMAIN table[a] : a # b => ~Has(table, b, a)
\* the probability the table gives a over b, read off the populated direction
TableProb(table, a, b) == IF Has(table, a, b) THEN table[a][b] ELSE One - table[b][a]
Deterministic(table) ==
  /\ CoversEveryPair(table)
  /\ \A a \in DOMAIN table : \A b \in DOMAIN table[a] : table[a][b] \in {0, One}

FirstCall == calls = 1
MatchupsPerRound == <<8, 4, 2, 1>>
Total(m) == m[1] + m[2] + m[3] + m[4]

\* C1: with the standard schedule and a table that covers every pair, a call
\* on a fresh instance never raises, never exceeds 8, 4, 2, 1 matchups in
\* rounds 1 to 4, and has resolved exactly 8, 4, 2 and 1 (15 in all) when it
\* returns, whatever the draws were.
C1_FifteenMatchups ==
  (FirstCall /\ CoversEveryPair(win_probability_dictionary)) =>
    /\ pc # "raised"
    /\ \A r \in 1..NumRounds : matchups[r] <= MatchupsPerRound[r]
    /\ \A r \in 1..NumRounds : r <= round => matchups[r] = MatchupsPerRound[r]
    /\ pc = "done" => (matchups = MatchupsPerRound /\ Total(matchups) = 15)

C1_Witness ==
  /\ FirstCall /\ pc = "done"
  /\ win_probability_dictionary = TableFwd(Even)
  /\ matchups = MatchupsPerRound
  /\ points_by_seed[16] = 16 /\ points_by_seed[9] = 18

\* entries of current_matchup_state after 0, 1, 2, 3 and 4 completed rounds
EntriesAfter == <<8, 8, 4, 2, 1>>

\* C2: during the call on a fresh instance current_matchup_state holds 8
\* entries after round 1 and half as many after each later round, and when
\* the call has returned after its 4 rounds it holds exactly one entry, keyed
\* by the winner of the last matchup.
C2_OneChampion ==
  /\ FirstCall => Len(current_matchup_state) = EntriesAfter[round + 1]
  /\ (FirstCall /\ pc = "done") =>
       /\ round = NumRounds
       /\ Len(current_matchup_state) = 1
       /\ current_matchup_state[1].key = winning_seed
       /\ winning_seed \in Seeds

C2_Witness ==
  /\ FirstCall /\ pc = "done"
  /\ Len(current_matchup_state) = 1
  /\ current_matchup_state[1].key = 13

MatchupResolved ==
  pc = "loop" /\ matchups'[round + 1] = matchups[round + 1] + 1

\* C3: a step that resolves a matchup between the primary seed and its
\* opponent adds the winner's seed number to the winner's points and changes
\* the points of no other seed.
C3_WinnerScoresOwnSeed ==
  [][MatchupResolved =>
       /\ winning_seed' \in {seed', current_opponent'}
       /\ \A s \in Seeds :
            points_by_seed'[s] =
              IF s = winning_seed' THEN points_by_seed[s] + s ELSE points_by_seed[s]]_vars

C3_Witness ==
  /\ pc = "loop" /\ round = 1
  /\ winning_seed = current_opponent /\ winning_seed = 9
  /\ seed = 16
  /\ points_by_seed[9] = 18 /\ points_by_seed[16] = 16

\* C4: points_by_seed always has the keys 1..16 and natural-number values,
\* all 0 at construction, and on one instance no value ever decreases.
C4_PointsNonDecreasing ==
  /\ [](/\ DOMAIN points_by_seed = Seeds
        /\ \A s \in Seeds : points_by_seed[s] \in Nat
        /\ pc = "ready" => points_by_seed = InitialPoints)
  /\ [][pc' # "ready" => \A s \in Seeds : points_by_seed'[s] >= points_by_seed[s]]_vars

C4_Witness ==
  /\ pc = "done"
  /\ points_by_seed[12] = 48
  /\ points_by_seed[1] = 0

\* C7: a failed lookup leaves the call as a ValueError naming the matchup,
\* and from then on that call resolves no matchup and adds no points.
C7_FailureAborts ==
  /\ [](error.type = "ValueError" =>
          /\ pc = "raised"
          /\ error.seeds = <<seed, current_opponent>>
          /\ NoEntry(win_probability_dictionary, seed, current_opponent))
  /\ [][(error # NoError /\ calls' = calls /\ pc' # "ready") =>
          UNCHANGED <<points_by_seed, matchups, current_matchup_state,
                      updated_matchup_state, idx, round>>]_vars

C7_Witness ==
  /\ pc = "raised" /\ error.type = "ValueError"
  /\ FirstCall /\ round = 1
  /\ idx < Len(current_matchup_state)
  /\ Total(matchups) = 8

\* The bracket as a tree over the 16 leaves, read off SEED_PATH_DICTIONARY:
\* round-1 pairs are neighbours, and each later descriptor is the other half
\* of the enclosing block.
BracketLeaves == <<1, 16, 8, 9, 4, 13, 5, 12, 2, 15, 7, 10, 3, 14, 6, 11>>

RECURSIVE BlockWinner(_, _, _)
BlockWinner(table, lo, hi) ==
  IF lo = hi THEN BracketLeaves[lo]
  ELSE LET mid == (lo + hi - 1) \div 2
           x == BlockWinner(table, lo, mid)
           y == BlockWinner(table, mid + 1, hi)
       IN  IF TableProb(table, x, y) = One THEN x ELSE y

BlockSize(k) == IF k = 1 THEN 2 ELSE IF k = 2 THEN 4 ELSE IF k = 3 THEN 8 ELSE 16
RoundWinners(table, k) ==
  {BlockWinner(table, (j - 1) * BlockSize(k) + 1, j * BlockSize(k)) : j \in 1..(16 \div BlockSize(k))}
Wins(table, s) == Cardinality({k \in 1..NumRounds : s \in RoundWinners(table, k)})
ExpectedPoints(table) == [s \in Seeds |-> s * Wins(table, s)]
Champion(table) == BlockWinner(table, 1, 16)

\* C8: with a table of 0.0 and 1.0 only, every run on a fresh instance ends
\* in the one state the table dictates: the champion is the seed that wins
\* each of the four matchups on its path through the bracket, and every
\* seed's points are its seed number times the matchups the table lets it win.
C8_DeterministicRun ==
  (FirstCall /\ pc = "done" /\ Deterministic(win_probability_dictionary)) =>
    /\ Len(current_matchup_state) = 1
    /\ current_matchup_state[1].key = Champion(win_probability_dictionary)
    /\ points_by_seed = ExpectedPoints(win_probability_dictionary)
    /\ points_by_seed[Champion(win_probability_dictionary)]
         = NumRounds * Champion(win_probability_dictionary)

C8_Witness ==
  /\ FirstCall /\ pc = "done"
  /\ win_probability_dictionary = TableRev(Zigzag)
  /\ points_by_seed = ExpectedPoints(TableRev(Zigzag))
  /\ current_matchup_state[1].key # 1

---------------------------------------------------------------------------
(* Properties of the lookup *)

LookedUp == lookup_args # <<>>

\* C5: in a table that populates at most one direction of each pair, an
\* entry a -> b = p makes the lookup of (a, b) return p and the lookup of
\* (b, a) return 1 - p, for two different seeds a and b, whatever row b is.
C5_SymmetricLookup ==
  (LookedUp /\ OneDirection(win_probability_dictionary)) =>
    LET table == win_probability_dictionary
        x == lookup_args[1]
        y == lookup_args[2]
    IN  x # y =>
          /\ Has(table, x, y) => lookup_result = Found(table[x][y])
          /\ Has(table, y, x) => lookup_result = Found(One - table[y][x])

C5_Witness ==
  /\ lookup_args = <<16, 1>>
  /\ OneDirection(win_probability_dictionary)
  /\ Has(win_probability_dictionary, 1, 16)
  /\ win_probability_dictionary[1][16] = 0
  /\ 16 \in DOMAIN win_probability_dictionary
  /\ lookup_result = Found(One)

\* C6: a pair with no entry in either direction makes the lookup fail with
\* the error that names both seeds, in the order asked; no probability is
\* returned.
C6_MissingRaises ==
  (LookedUp /\ NoEntry(win_probability_dictionary, lookup_args[1], lookup_args[2])) =>
    /\ ~lookup_result.ok
    /\ lookup_result.seeds = lookup_args
    /\ lookup_result.p = None

C6_Witness ==
  /\ win_probability_dictionary = (1 :> EmptyRow)
  /\ lookup_args = <<1, 16>>
  /\ lookup_result = Missing(1, 16)

---------------------------------------------------------------------------
(* clip_continuous_inputs_to_discrete_search_space *)

\* one unit of the candidates in the tenths the inputs are counted in
Tenth == 10

Abs(x) == IF x < 0 THEN -x ELSE x

\* variant: the difference is taken without abs
DistanceSigned(candidate, value) == candidate * Tenth - value

\* abs(search_space_arr - value), for one candidate
Distance(candidate, value) == Abs(candidate * Tenth - value)

\* variant: among equally near candidates the last position is taken
ArgMinLast(arr, value) ==
  CHOOSE i \in DOMAIN arr :
    /\ \A j \in DOMAIN arr : Distance(arr[i], value) <= Distance(arr[j], value)
    /\ \A j \in (i + 1)..Len(arr) : Distance(arr[j], value) > Distance(arr[i], value)

\* np.argmin: the first position of the least distance (arr not empty)
ArgMin(arr, value) ==
  CHOOSE i \in DOMAIN arr :
    /\ \A j \in DOMAIN arr : Distance(arr[i], value) <= Distance(arr[j], value)
    /\ \A j \in 1..(i - 1) : Distance(arr[j], value) > Distance(arr[i], value)

\* np.delete(arr, i)
Delete(arr, i) == [j \in 1..(Len(arr) - 1) |-> IF j < i THEN arr[j] ELSE arr[j + 1]]

\* variant: the working copy is never shortened
WorkingCopyKept(arr, i, rep) == arr

\* the working copy after position i was selected
WorkingCopyAfter(arr, i, rep) == IF rep THEN arr ELSE Delete(arr, i)

\* variant: the selected position is removed from the list itself
SourceListPopped(list, i, rep) == IF rep THEN list ELSE Delete(list, i)

\* the list behind the working copy after position i was selected: np.array
\* copied it and np.delete returns a new array
SourceList(list, i, rep) == list

\* the candidate list in use: the argument, or the module default for None
EffectiveSpace ==
  IF discrete_search_space.none
  THEN SINGLE_REGION_SEARCH_SPACE
  ELSE discrete_search_space.list

\* what the caller of the finished call got
ClipResult ==
  [pc |-> clip_pc,
   output |-> IF clip_pc = "returned" THEN output_values ELSE <<>>,
   error |-> clip_error]

\* entry of the function up to the for loop
ClipEnter ==
  /\ clip_pc \in {"idle", "returned", "raised"}
  /\ clip_calls < MaxClipCalls
  /\ clip_calls' = clip_calls + 1
  /\ previous_result' = ClipResult
  /\ output_values' = <<>>
  /\ search_space_arr' = EffectiveSpace
  /\ clip_pos' = 1
  /\ clip_pc' = "loop"
  /\ clip_error' = NoError
  /\ UNCHANGED <<SINGLE_REGION_SEARCH_SPACE, continuous_input_arr, discrete_search_space,
                 replace, bracketVars, lookupVars>>

\* one iteration of the for loop over continuous_input_arr
ClipStep ==
  /\ clip_pc = "loop"
  /\ clip_pos <= Len(continuous_input_arr)
  /\ IF search_space_arr = <<>>
     THEN \* np.argmin of an empty array
          /\ clip_pc' = "raised"
          /\ clip_error' = Raised("ValueError", <<>>)
          /\ UNCHANGED <<search_space_arr, output_values, clip_pos,
                         SINGLE_REGION_SEARCH_SPACE, discrete_search_space>>
     ELSE LET value == continuous_input_arr[clip_pos]
              nearest_neighbor_idx == ArgMin(search_space_arr, value)
          IN  /\ output_values' = Append(output_values, search_space_arr[nearest_neighbor_idx])
              /\ search_space_arr' = WorkingCopyAfter(search_space_arr, nearest_neighbor_idx, replace)
              /\ IF discrete_search_space.none
                 THEN /\ SINGLE_REGION_SEARCH_SPACE' =
                           SourceList(SINGLE_REGION_SEARCH_SPACE, nearest_neighbor_idx, replace)
                      /\ UNCHANGED discrete_search_space
                 ELSE /\ discrete_search_space' =
                           Given(SourceList(discrete_search_space.list,
                                            nearest_neighbor_idx, replace))
                      /\ UNCHANGED SINGLE_REGION_SEARCH_SPACE
              /\ clip_pos' = clip_pos + 1
              /\ UNCHANGED <<clip_pc, clip_error>>
  /\ UNCHANGED <<continuous_input_arr, replace, clip_calls, previous_result,
                 bracketVars, lookupVars>>

\* the input is exhausted: return output_values
ClipReturn ==
  /\ clip_pc = "loop"
  /\ clip_pos > Len(continuous_input_arr)
  /\ clip_pc' = "returned"
  /\ UNCHANGED <<SINGLE_REGION_SEARCH_SPACE, continuous_input_arr, discrete_search_space,
                 replace, search_space_arr, output_values, clip_pos, clip_error,
                 clip_calls, previous_result, bracketVars, lookupVars>>

\* continuous values, in tenths: -0.5, 1.1, 1.2, 1.5, 2.5, 16.4
ClipValues == {-5, 11, 12, 15, 25, 164}
RECURSIVE SeqsUpTo(_, _)
SeqsUpTo(S, n) ==
  IF n = 0 THEN {<<>>}
  ELSE LET shorter == SeqsUpTo(S, n - 1)
       IN  shorter \cup {Append(q, x) : q \in shorter, x \in S}
ClipInputs == SeqsUpTo(ClipValues, MaxInputLen)
ClipSpaces ==
  { NoneArg, Given(<<1, 2>>), Given(<<2, 1>>), Given(<<3, 1, 3, 2>>),
    Given(<<16, 4, 1, 9>>), Given(<<>>) }

InitClip ==
  /\ BracketConstructed(TableFwd(Chalk))
  /\ GeneratorUnseeded
  /\ LookupIdle
  /\ SINGLE_REGION_SEARCH_SPACE = DefaultSearchSpace
  /\ continuous_input_arr \in ClipInputs
  /\ discrete_search_space \in ClipSpaces
  /\ replace \in BOOLEAN
  /\ search_space_arr = <<>>
  /\ output_values = <<>>
  /\ clip_pos = 1
  /\ clip_pc = "idle"
  /\ clip_error = NoError
  /\ clip_calls = 0
  /\ previous_result = NoClipResult

NextClip == ClipEnter \/ ClipStep \/ ClipReturn

SpecClip == InitClip /\ [][NextClip]_vars

---------------------------------------------------------------------------
(* Properties of the clip function *)

Distinct(q) == \A i \in DOMAIN q, j \in DOMAIN q : i # j => q[i] # q[j]

ClipAppends == clip_pc = "loop" /\ output_values' # output_values

\* C9: the function returns one output per input, each appended at the
\* position of its input, and the output for input i is a member of the
\* working copy as it stands when input i is processed that no other member
\* is closer to; [16.4, 1.1, 1.2] over the default 1..16 without replacement
\* gives [16, 1, 2].
C9_NearestRemainingCandidate ==
  /\ [](/\ clip_pc = "returned" => Len(output_values) = Len(continuous_input_arr)
        /\ (/\ clip_pc = "returned" /\ continuous_input_arr = <<164, 11, 12>>
            /\ discrete_search_space = NoneArg /\ ~replace)
             => output_values = <<16, 1, 2>>)
  /\ [][ClipAppends =>
          LET i == clip_pos
              value == continuous_input_arr[i]
          IN  /\ Len(output_values') = i
              /\ \A j \in 1..(i - 1) : output_values'[j] = output_values[j]
              /\ output_values'[i] \in RangeOf(search_space_arr)
              /\ \A c \in RangeOf(search_space_arr) :
                   Abs(output_values'[i] * Tenth - value) <= Abs(c * Tenth - value)]_vars

C9_Witness ==
  /\ clip_pc = "returned"
  /\ continuous_input_arr = <<164, 11, 12>>
  /\ discrete_search_space = NoneArg
  /\ ~replace
  /\ output_values = <<16, 1, 2>>

\* C10: without replacement, over distinct candidates at least as many as
\* the inputs, the call does not raise, the outputs so far are pairwise
\* different, and no output is still in the working copy: the working copy
\* and the outputs together are the candidates, each once.
C10_NoRepeatedOutput ==
  (/\ clip_pc \in {"loop", "returned", "raised"}
   /\ ~replace
   /\ Distinct(EffectiveSpace)
   /\ Len(EffectiveSpace) >= Len(continuous_input_arr)) =>
     /\ clip_pc # "raised"
     /\ Distinct(output_values)
     /\ RangeOf(output_values) \cap RangeOf(search_space_arr) = {}
     /\ RangeOf(output_values) \cup RangeOf(search_space_arr) = RangeOf(EffectiveSpace)
     /\ Len(output_values) + Len(search_space_arr) = Len(EffectiveSpace)

C10_Witness ==
  /\ clip_pc = "returned"
  /\ ~replace
  /\ continuous_input_arr = <<11, 11, 11>>
  /\ discrete_search_space = NoneArg
  /\ output_values = <<1, 2, 3>>

\* C11: without replacement and with more inputs than candidates the call
\* never returns: every candidate is handed out once, and the first input
\* that finds the working copy empty raises (the ValueError of np.argmin on
\* an empty array) with the output left as it stands.
C11_ExhaustedSpaceRaises ==
  /\ []((~replace /\ clip_pc # "idle"
         /\ Len(continuous_input_arr) > Len(EffectiveSpace)) =>
          /\ clip_pc # "returned"
          /\ Len(output_values) + Len(search_space_arr) = Len(EffectiveSpace)
          /\ clip_pc = "raised" =>
               /\ clip_error.type = "ValueError"
               /\ search_space_arr = <<>>
               /\ clip_pos = Len(EffectiveSpace) + 1
               /\ Len(output_values) = Len(EffectiveSpace))
  /\ [][(clip_pc = "loop" /\ ~replace /\ search_space_arr = <<>>
         /\ clip_pos <= Len(continuous_input_arr)) =>
          (clip_pc' = "raised" /\ output_values' = output_values)]_vars

C11_Witness ==
  /\ clip_pc = "raised"
  /\ ~replace
  /\ discrete_search_space = Given(<<1, 2>>)
  /\ continuous_input_arr = <<11, 11, 11>>
  /\ output_values = <<1, 2>>
  /\ clip_pos = 3

---------------------------------------------------------------------------
(* Further properties of the bracket simulation *)

SameContent(d, e) ==
  /\ Len(d) = Len(e)
  /\ \A i \in DOMAIN d : d[i].key = e[i].key /\ d[i].val = e[i].val

\* C12: the schedule handed to the constructor keeps its 8 slots of 4
\* descriptors and the table keeps its entries through every construction
\* and every run, and each newly constructed instance starts from the full
\* bracket.
C12_InputsNeverModified ==
  /\ [](/\ seed_path_dictionary = SEED_PATH_DICTIONARY
        /\ \A i \in DOMAIN seed_path_dictionary : Len(seed_path_dictionary[i].val) = NumRounds
        /\ pc = "ready" => SameContent(current_matchup_state, SEED_PATH_DICTIONARY))
  /\ [][win_probability_dictionary' = win_probability_dictionary]_vars

C12_Witness ==
  /\ pc = "done"
  /\ Len(current_matchup_state) = 1
  /\ current_matchup_state[1].val = <<>>
  /\ seed_path_dictionary = SEED_PATH_DICTIONARY
  /\ win_probability_dictionary = TableFwd(Even)

\* C13: the instance draws from a random source of its own: after
\* np.random.seed(s) the first matchup of its run, seed 1 against seed 16,
\* goes the way the first variate of the seeded sequence decides, whatever
\* other instances have drawn in between.
C13_OwnRandomSource ==
  (FirstCall /\ round = 0 /\ matchups[1] >= 1) =>
    (points_by_seed[1] = 1) =
      (Uniform(SeedRng(np_random_seed)) < TableProb(win_probability_dictionary, 1, 16))

EntryOf(d, k) == d[CHOOSE i \in DOMAIN d : d[i].key = k]

\* C14: the winner of a matchup is entered in the next-round state with the
\* list object of the primary seed's entry, popped once, also when the winner
\* is the opponent and has an entry of its own (whose content, in a run on a
\* fresh instance, differs from what is entered); after round 1 the entry at
\* position i holds the list of slot i, under key i or its round-1 opponent
\* 17 - i.
C14_WinnerInheritsPrimaryPath ==
  /\ [][MatchupResolved =>
          LET primary == current_matchup_state[idx]
              entered == EntryOf(updated_matchup_state', winning_seed')
          IN  /\ winning_seed' \in Keys(updated_matchup_state')
              /\ entered.ref = primary.ref
              /\ entered.val = Tail(primary.val)
              /\ (winning_seed' # primary.key /\ winning_seed' \in Keys(current_matchup_state))
                   => /\ entered.ref # EntryOf(current_matchup_state, winning_seed').ref
                      /\ FirstCall =>
                           entered.val # EntryOf(current_matchup_state, winning_seed').val]_vars
  /\ []((FirstCall /\ round = 1) =>
          \A i \in DOMAIN current_matchup_state :
            /\ current_matchup_state[i].key \in {i, 17 - i}
            /\ current_matchup_state[i].ref = DeepCopy(seed_path_dictionary)[i].ref)

C14_Witness ==
  /\ FirstCall /\ round = 2 /\ pc = "loop" /\ idx = 1
  /\ current_matchup_state[1].key = 9
  /\ current_matchup_state[1].ref = DeepCopy(seed_path_dictionary)[1].ref
  /\ Len(current_matchup_state[1].val) = 2

\* the next loop iteration pops a tuple descriptor
PopsTuple ==
  /\ pc = "loop"
  /\ idx <= Len(current_matchup_state)
  /\ current_matchup_state[idx].key \notin visited
  /\ current_matchup_state[idx].val # <<>>
  /\ Head(current_matchup_state[idx].val).tuple

\* C15: in a run on a fresh instance a tuple descriptor is popped only in
\* rounds 2 to 4, and at that moment exactly one of its members is a key of
\* current_matchup_state; that member becomes the opponent, and the primary
\* seed is not a member of its own descriptor.
C15_OneCandidateAlive ==
  [][(FirstCall /\ PopsTuple) =>
       LET primary == current_matchup_state[idx]
           members == RangeOf(Head(primary.val).members)
           alive == members \cap Keys(current_matchup_state)
       IN  /\ round \in 1..(NumRounds - 1)
           /\ Cardinality(alive) = 1
           /\ current_opponent' \in alive
           /\ current_opponent' # primary.key
           /\ primary.key \notin members]_vars

C15_Witness ==
  /\ FirstCall /\ round = 3 /\ matchups[4] = 1
  /\ seed = 16
  /\ current_opponent = 15
  /\ winning_seed = 15

Position(d, k) == CHOOSE i \in DOMAIN d : d[i].key = k

\* the loop over .items() has gone through every entry of the round
RoundProcessed == pc = "loop" /\ idx > Len(current_matchup_state)

\* C16: in a run on a fresh instance the opponent found from a tuple lies
\* further on in the iteration and was not visited before; it is marked
\* visited at once, and an entry whose key is visited is passed over without
\* a matchup.  So when a round from 2 to 4 has been gone through, half of the
\* entries have played as primary seed and the other half, the visited ones,
\* as opponent, each in one matchup; round 1 has one matchup per entry.
C16_EachSeedPlaysOnce ==
  /\ [][(FirstCall /\ PopsTuple) =>
          /\ current_opponent' \notin visited
          /\ current_opponent' \in visited'
          /\ current_opponent' \in Keys(current_matchup_state)
          /\ Position(current_matchup_state, current_opponent') > idx]_vars
  /\ [][(pc = "loop" /\ idx <= Len(current_matchup_state)
         /\ current_matchup_state[idx].key \in visited) =>
          /\ idx' = idx + 1
          /\ UNCHANGED <<points_by_seed, current_matchup_state, updated_matchup_state,
                         matchups, visited>>]_vars
  /\ []((FirstCall /\ RoundProcessed) =>
          IF round = 0
          THEN visited = {} /\ matchups[1] = Len(current_matchup_state)
          ELSE /\ visited \subseteq Keys(current_matchup_state)
               /\ Cardinality(visited) = matchups[round + 1]
               /\ 2 * matchups[round + 1] = Len(current_matchup_state))

C16_Witness ==
  /\ FirstCall /\ RoundProcessed /\ round = 1
  /\ visited = {12, 6, 10, 9}
  /\ Keys(updated_matchup_state) = {9, 15, 3, 12}

RoundStart == pc = "loop" /\ idx = 1

\* C17: every list has 4 descriptors at construction; in a run on a fresh
\* instance every entry of current_matchup_state has exactly 4 - r
\* descriptors left after round r, for r = 0..4.  Within round r + 1 the
\* entries already processed as primary seed have one less, the others the
\* same, and every list entered in the next-round state has 4 - (r + 1).
C17_OneDescriptorPerRound ==
  /\ pc = "ready" =>
       /\ Len(current_matchup_state) = 8
       /\ \A i \in DOMAIN current_matchup_state :
            Len(current_matchup_state[i].val) = NumRounds
  /\ (FirstCall /\ (RoundStart \/ pc = "done")) =>
       \A i \in DOMAIN current_matchup_state :
         Len(current_matchup_state[i].val) = NumRounds - round
  /\ (FirstCall /\ pc = "loop") =>
       /\ \A i \in DOMAIN current_matchup_state :
            Len(current_matchup_state[i].val) =
              IF i < idx /\ current_matchup_state[i].key \notin visited
              THEN NumRounds - round - 1
              ELSE NumRounds - round
       /\ \A j \in DOMAIN updated_matchup_state :
            Len(updated_matchup_state[j].val) = NumRounds - round - 1

C17_Witness ==
  /\ FirstCall /\ RoundStart /\ round = 3
  /\ Keys(current_matchup_state) = {16, 15}
  /\ \A i \in DOMAIN current_matchup_state : Len(current_matchup_state[i].val) = 1

---------------------------------------------------------------------------
(* Further properties of the clip function *)

Gap(candidate, value) == Abs(candidate * Tenth - value)
Nearest(arr, value) ==
  {p \in DOMAIN arr : \A q \in DOMAIN arr : Gap(arr[p], value) <= Gap(arr[q], value)}
Earliest(P) == CHOOSE p \in P : \A q \in P : p <= q
Removing(arr, p) == SubSeq(arr, 1, p - 1) \o SubSeq(arr, p + 1, Len(arr))

\* C18: among the members of the working copy nearest to the input the one
\* at the earliest position of the working copy as it stands is selected,
\* and without replacement that position is the one removed; 1.5 over [1, 2]
\* gives 1 and 1.5 over [2, 1] gives 2.
C18_EarliestOnTies ==
  /\ [][ClipAppends =>
          LET value == continuous_input_arr[clip_pos]
              p == Earliest(Nearest(search_space_arr, value))
          IN  /\ output_values'[clip_pos] = search_space_arr[p]
              /\ search_space_arr' =
                   IF replace THEN search_space_arr ELSE Removing(search_space_arr, p)]_vars
  /\ []((clip_pc = "returned" /\ continuous_input_arr = <<15>>) =>
          /\ discrete_search_space = Given(<<1, 2>>) => output_values = <<1>>
          /\ discrete_search_space = Given(<<2, 1>>) => output_values = <<2>>)

C18_Witness ==
  /\ clip_pc = "returned"
  /\ ~replace
  /\ discrete_search_space = Given(<<3, 1, 3, 2>>)
  /\ continuous_input_arr = <<25, 25>>
  /\ output_values = <<3, 3>>
  /\ search_space_arr = <<1, 2>>

---------------------------------------------------------------------------
(* Calling simulate_region_tournament again on a finished instance *)

\* what a completed tournament leaves: one entry, its schedule used up
ChampionCrowned ==
  /\ Len(current_matchup_state) = 1
  /\ current_matchup_state[1].val = <<>>

\* C19: a further call of simulate_region_tournament on an instance whose
\* tournament is complete raises at the first matchup, the pop from the
\* champion's empty schedule failing; no matchup is resolved, and
\* points_by_seed and the champion entry of current_matchup_state stay as the
\* completed tournament left them.
C19_SecondCallFails ==
  /\ [][(ChampionCrowned /\ pc' # "ready") =>
          /\ points_by_seed' = points_by_seed
          /\ current_matchup_state' = current_matchup_state
          /\ pc = "loop" =>
               /\ idx = 1
               /\ pc' = "raised"
               /\ error'.type = "IndexError"
               /\ matchups' = matchups]_vars
  /\ []((ChampionCrowned /\ pc = "raised" /\ round = 0) =>
          /\ error.type = "IndexError"
          /\ matchups = NoMatchups)

C19_Witness ==
  /\ pc = "raised"
  /\ calls = 2
  /\ ChampionCrowned
  /\ error.type = "IndexError"
  /\ matchups = NoMatchups
  /\ points_by_seed # InitialPoints

\* C20: no step of the clip function changes the candidate list the caller
\* passed or the module-level default 1..16, with replace true or false and
\* in the step that raises as well; a call that follows another with the
\* same arguments ends as the one before it did, with the same output.
C20_SourcesNeverModified ==
  /\ [][/\ discrete_search_space' = discrete_search_space
        /\ SINGLE_REGION_SEARCH_SPACE' = SINGLE_REGION_SEARCH_SPACE]_vars
  /\ [](SINGLE_REGION_SEARCH_SPACE = DefaultSearchSpace)
  /\ []((clip_calls >= 2 /\ clip_pc \in {"returned", "raised"}) =>
          ClipResult = previous_result)

C20_Witness ==
  /\ clip_calls = 2
  /\ clip_pc = "returned"
  /\ ~replace
  /\ discrete_search_space = NoneArg
  /\ continuous_input_arr = <<164, 11, 12>>
  /\ output_values = <<16, 1, 2>>
  /\ previous_result.output = <<16, 1, 2>>
  /\ Len(search_space_arr) = 13

====
